---- MODULE Spec2Model ----
(***************************************************************************)
(* Personal Library Manager (personal-library/main.py): the data-access    *)
(* layer over the single SQLite table `books`, the add-book form of the    *)
(* display layer, and the aggregate statistics.                            *)
(*                                                                         *)
(* Text is a sequence of characters (one-element strings; "Eacute" and     *)
(* "eacute" stand for U+00C9 and U+00E9).  A stored row is a record        *)
(* [id, title, author, year, genre, read] with read stored as 0/1, as      *)
(* sqlite3 stores a Python bool.  Python values returned by the functions  *)
(* are tagged records ([kind |-> "None"], [kind |-> "bool", val |-> ..],   *)
(* ...), so that None, False, 0 and [] stay different values.              *)
(***************************************************************************)
EXTENDS Integers, Sequences, FiniteSets, TLC

VARIABLES lastOp,     \* history: the last operation ("none" before the first)
          lastArg,    \* history: its arguments
          lastFault,  \* history: the storage faults it met
          lastRet,    \* history: what it returned
          lastRaised, \* history: it ended with an exception nobody caught
          schema,     \* the table `books` exists in the database file
          books,      \* the rows of the table
          seq,        \* sqlite_sequence entry of `books` (AUTOINCREMENT)
          issued,     \* history: every id the engine has assigned so far
          pre         \* history: [books, issued] as they were before the last operation

last == <<lastOp, lastArg, lastFault, lastRet, lastRaised>>

vars == <<last, schema, books, seq, issued, pre>>

-----------------------------------------------------------------------------
(* Bounds of the model *)

\* ids the engine may assign before the model stops adding
MaxId == 3
\* books of one genre (author) that a pre-populated library holds beyond its base count
MaxExtra == 1

-----------------------------------------------------------------------------
(* Characters and text *)

CharCode(c) ==
  CASE c = " " -> 32
    [] c = "%" -> 37
    [] c = "A" -> 65
    [] c = "_" -> 95
    [] c = "a" -> 97
    [] c = "b" -> 98
    [] c = "c" -> 99
    [] c = "d" -> 100
    [] c = "e" -> 101
    [] c = "f" -> 102
    [] c = "Eacute" -> 201
    [] c = "eacute" -> 233

\* str.lower() of Python: Unicode aware
PyLowerChar(c) ==
  CASE c = "A" -> "a"
    [] c = "Eacute" -> "eacute"
    [] OTHER -> c

PyLower(s) == [i \in 1..Len(s) |-> PyLowerChar(s[i])]

\* LOWER() of SQLite: folds the ASCII letters only
SqlLowerChar(c) == IF c = "A" THEN "a" ELSE c

SqlLower(s) == [i \in 1..Len(s) |-> SqlLowerChar(s[i])]

\* str.strip() of Python: removes leading and trailing whitespace
RECURSIVE LStrip(_)
LStrip(s) == IF s # <<>> /\ Head(s) = " " THEN LStrip(Tail(s)) ELSE s

RECURSIVE RStrip(_)
RStrip(s) ==
  IF s # <<>> /\ s[Len(s)] = " " THEN RStrip(SubSeq(s, 1, Len(s) - 1)) ELSE s

Strip(s) == RStrip(LStrip(s))

\* BINARY collation: memcmp of the encoded text, shorter prefix first
RECURSIVE StrLeq(_, _)
StrLeq(s, t) ==
  IF s = <<>> THEN TRUE
  ELSE IF t = <<>> THEN FALSE
  ELSE IF Head(s) = Head(t) THEN StrLeq(Tail(s), Tail(t))
  ELSE CharCode(Head(s)) < CharCode(Head(t))

\* the LIKE operator of SQLite, no ESCAPE clause: % matches any run of
\* characters, _ any one character, every other character itself, the ASCII
\* letters without regard to case
RECURSIVE LikeMatch(_, _)
LikeMatch(p, s) ==
  IF p = <<>> THEN s = <<>>
  ELSE IF Head(p) = "%"
    THEN LikeMatch(Tail(p), s) \/ (s # <<>> /\ LikeMatch(p, Tail(s)))
  ELSE /\ s # <<>>
       /\ (Head(p) = "_" \/ SqlLowerChar(Head(p)) = SqlLowerChar(Head(s)))
       /\ LikeMatch(Tail(p), Tail(s))

-----------------------------------------------------------------------------
(* Python values *)

PyNone == [kind |-> "None"]
PyBool(b) == [kind |-> "bool", val |-> b]
PyInt(n) == [kind |-> "int", val |-> n]
PyList(s) == [kind |-> "list", val |-> s]

\* truth value testing: None and the empty list are false
Truthy(v) ==
  CASE v.kind = "None" -> FALSE
    [] v.kind = "bool" -> v.val
    [] v.kind = "int" -> v.val # 0
    [] v.kind = "list" -> v.val # <<>>

IsNotNone(v) == v.kind # "None"

-----------------------------------------------------------------------------
(* The SQL engine *)

Max(S) == CHOOSE m \in S : \A x \in S : x <= m

RECURSIVE SumSeq(_)
SumSeq(s) == IF s = <<>> THEN 0 ELSE Head(s) + SumSeq(Tail(s))

\* integer division of SQLite: truncates toward zero
SqlDiv(a, b) == IF a >= 0 THEN a \div b ELSE -((-a) \div b)

Tuple(b) == <<b.id, b.title, b.author, b.year, b.genre, b.read>>

Tuples(s) == [i \in 1..Len(s) |-> Tuple(s[i])]

\* INTEGER PRIMARY KEY AUTOINCREMENT: one more than the largest id the table
\* ever held, which sqlite_sequence remembers across deletes
NextRowId(db) == Max({db.seq} \cup {b.id : b \in db.books}) + 1

\* the ORDER BY clauses of the queries
OrderLeq(ord, a, b) ==
  CASE ord = "title" -> StrLeq(a.title, b.title)
    [] ord = "author" -> StrLeq(a.author, b.author)
    [] ord = "count DESC" -> a[2] >= b[2]
    [] ord = "decade" -> a[1] <= b[1]

\* every enumeration of S in the order ord; elements the order does not
\* tell apart come in any order (SQL leaves the order of ties open)
RECURSIVE Sorted(_, _)
Sorted(S, ord) ==
  IF S = {} THEN {<<>>}
  ELSE UNION {{<<x>> \o r : r \in Sorted(S \ {x}, ord)} :
                x \in {m \in S : \A y \in S : OrderLeq(ord, m, y)}}

\* the grouping expressions of the statistics queries
GroupKey(col, b) ==
  CASE col = "genre" -> b.genre
    [] col = "author" -> b.author
    [] col = "decade" -> SqlDiv(b.year, 10) * 10

\* SELECT key, COUNT(*) ... GROUP BY key: one <<key, count>> row per key
GroupCount(rows, col) ==
  {<<k, Cardinality({b \in rows : GroupKey(col, b) = k})>> :
     k \in {GroupKey(col, b) : b \in rows}}

\* LIMIT 5
TopN == 5

\* variant: the query without its LIMIT clause
LimitMissing(s, n) == s

Limit(s, n) == SubSeq(s, 1, IF Len(s) < n THEN Len(s) ELSE n)

\* One statement on one connection: the set of possible outcomes
\* [books, seq, rows, lastrowid]. rows is what fetchall() would return,
\* lastrowid is sqlite3_last_insert_rowid() of the fresh connection.
SqlExec(db, stmt) ==
  LET Read(R) == {[books |-> db.books, seq |-> db.seq, rows |-> r, lastrowid |-> 0] :
                    r \in R}
  IN
  CASE stmt.sql = "INSERT" ->
         LET id == NextRowId(db)
             row == [id |-> id, title |-> stmt.p[1], author |-> stmt.p[2],
                     year |-> stmt.p[3], genre |-> stmt.p[4],
                     read |-> IF stmt.p[5] THEN 1 ELSE 0]
         IN {[books |-> db.books \cup {row}, seq |-> id, rows |-> <<>>,
              lastrowid |-> id]}
    [] stmt.sql = "DELETE" ->
         {[books |-> {b \in db.books : b.id # stmt.p[1]}, seq |-> db.seq,
           rows |-> <<>>, lastrowid |-> 0]}
    [] stmt.sql = "SELECT_ALL" ->
         Read({Tuples(s) : s \in Sorted(db.books, "title")})
    [] stmt.sql = "SELECT_TITLE_LIKE" ->
         Read({Tuples(s) :
                 s \in Sorted({b \in db.books : LikeMatch(stmt.p[1], SqlLower(b.title))},
                              "title")})
    [] stmt.sql = "SELECT_AUTHOR_LIKE" ->
         Read({Tuples(s) :
                 s \in Sorted({b \in db.books : LikeMatch(stmt.p[1], SqlLower(b.author))},
                              "author")})
    [] stmt.sql = "COUNT_ALL" ->
         Read({<< <<Cardinality(db.books)>> >>})
    [] stmt.sql = "COUNT_READ" ->
         Read({<< <<Cardinality({b \in db.books : b.read = 1})>> >>})
    [] stmt.sql = "TOP_GENRES" ->
         Read({Limit(s, TopN) : s \in Sorted(GroupCount(db.books, "genre"), "count DESC")})
    [] stmt.sql = "TOP_AUTHORS" ->
         Read({Limit(s, TopN) : s \in Sorted(GroupCount(db.books, "author"), "count DESC")})
    [] stmt.sql = "DECADES" ->
         Read(Sorted(GroupCount(db.books, "decade"), "decade"))

-----------------------------------------------------------------------------
(* Database operations *)

\* initialize_database: CREATE TABLE IF NOT EXISTS on its own connection,
\* outside any try block. A storage fault raises sqlite3.Error to the caller.
initialize_database(exists, fault) ==
  IF fault THEN [schema |-> exists, raised |-> TRUE]
  ELSE [schema |-> TRUE, raised |-> FALSE]

\* execute_query: the set of possible outcomes [books, seq, result]. A fault
\* is a sqlite3.Error raised by connect, execute, fetchall or commit; the
\* except clause returns None and what was not committed is rolled back when
\* the connection is dropped.
execute_query(db, stmt, fetchall, fault) ==
  IF fault THEN {[books |-> db.books, seq |-> db.seq, result |-> PyNone]}
  ELSE {IF fetchall
          THEN [books |-> db.books, seq |-> db.seq, result |-> PyList(o.rows)]
          ELSE [books |-> o.books, seq |-> o.seq, result |-> PyInt(o.lastrowid)] :
        o \in SqlExec(db, stmt)}

\* variant: `return book_id`
add_book_returning_id(db, title, author, year, genre, read_status, fault) ==
  {[books |-> o.books, seq |-> o.seq, ret |-> o.result] :
     o \in execute_query(db,
                         [sql |-> "INSERT",
                          p |-> <<title, author, year, genre, read_status>>],
                         FALSE, fault)}

add_book_to_db(db, title, author, year, genre, read_status, fault) ==
  {[books |-> o.books, seq |-> o.seq, ret |-> PyBool(IsNotNone(o.result))] :
     o \in execute_query(db,
                         [sql |-> "INSERT",
                          p |-> <<title, author, year, genre, read_status>>],
                         FALSE, fault)}

\* the dictionary built from one fetched row; bool(book[5])
BookDict(t) ==
  [id |-> t[1], title |-> t[2], author |-> t[3], year |-> t[4], genre |-> t[5],
   read |-> t[6] # 0]

BookDicts(data) ==
  IF ~Truthy(data) THEN PyList(<<>>)
  ELSE PyList([i \in 1..Len(data.val) |-> BookDict(data.val[i])])

get_all_books(db, fault) ==
  {[books |-> o.books, seq |-> o.seq, ret |-> BookDicts(o.result)] :
     o \in execute_query(db, [sql |-> "SELECT_ALL", p |-> <<>>], TRUE, fault)}

search_books(db, search_type, search_query, fault) ==
  LET sql == IF search_type = "Title" THEN "SELECT_TITLE_LIKE" ELSE "SELECT_AUTHOR_LIKE"
      parameters == << <<"%">> \o PyLower(search_query) \o <<"%">> >>
  IN {[books |-> o.books, seq |-> o.seq, ret |-> BookDicts(o.result)] :
        o \in execute_query(db, [sql |-> sql, p |-> parameters], TRUE, fault)}

\* variant: `return bool(result)`
delete_book_truthy(db, book_id, fault) ==
  {[books |-> o.books, seq |-> o.seq, ret |-> PyBool(Truthy(o.result))] :
     o \in execute_query(db, [sql |-> "DELETE", p |-> <<book_id>>], FALSE, fault)}

delete_book(db, book_id, fault) ==
  {[books |-> o.books, seq |-> o.seq, ret |-> PyBool(IsNotNone(o.result))] :
     o \in execute_query(db, [sql |-> "DELETE", p |-> <<book_id>>], FALSE, fault)}

\* a Python dict as the sequence of its <<key, value>> items in insertion
\* order; assigning to a key that is present replaces its value in place
DictPut(d, k, v) ==
  IF \E i \in 1..Len(d) : d[i][1] = k
    THEN [i \in 1..Len(d) |-> IF d[i][1] = k THEN <<k, v>> ELSE d[i]]
    ELSE Append(d, <<k, v>>)

RECURSIVE DictComp(_)
DictComp(rows) ==
  IF rows = <<>> THEN <<>>
  ELSE LET n == Len(rows)
       IN DictPut(DictComp(SubSeq(rows, 1, n - 1)), rows[n][1], rows[n][2])

\* f"{decade}s": the decimal digits of the number followed by the letter s
DecadeLabel(row) == << <<row[1], "s">>, row[2] >>

DecadeLabels(rows) == [i \in 1..Len(rows) |-> DecadeLabel(rows[i])]

\* variant: `read_books // total_books * 100`
ReadPercentageFloorDiv(read_books, total_books) ==
  IF total_books > 0 THEN [num |-> (read_books \div total_books) * 100, den |-> 1]
  ELSE [num |-> 0, den |-> 1]

\* read_books / total_books * 100 as an exact fraction; the rounding of the
\* floating-point division is not modelled
ReadPercentage(read_books, total_books) ==
  IF total_books > 0 THEN [num |-> read_books * 100, den |-> total_books]
  ELSE [num |-> 0, den |-> 1]

\* get_statistics: five queries, each on its own connection; faults[i] tells
\* whether the i-th query meets a storage fault
get_statistics(db, faults) ==
  LET Q(sql, i) == execute_query(db, [sql |-> sql, p |-> <<>>], TRUE, faults[i])
      Count(r) == IF Truthy(r.result) THEN r.result.val[1][1] ELSE 0
      Items(r) == IF Truthy(r.result) THEN DictComp(r.result.val) ELSE <<>>
  IN {[books |-> db.books, seq |-> db.seq,
       ret |-> [total_books |-> Count(t),
                read_books |-> Count(r),
                read_percentage |-> ReadPercentage(Count(r), Count(t)),
                genres |-> Items(g),
                authors |-> Items(a),
                decades |-> IF Truthy(d.result)
                              THEN DictComp(DecadeLabels(d.result.val)) ELSE <<>>]] :
        t \in Q("COUNT_ALL", 1), r \in Q("COUNT_READ", 2), g \in Q("TOP_GENRES", 3),
        a \in Q("TOP_AUTHORS", 4), d \in Q("DECADES", 5)}

-----------------------------------------------------------------------------
(* State machine *)

DB == [books |-> books, seq |-> seq]

\* nothing has been called yet
NoOp ==
  /\ lastOp = "none"
  /\ lastArg = <<>>
  /\ lastFault = FALSE
  /\ lastRet = PyNone
  /\ lastRaised = FALSE

\* record the operation that has just ended
Record(op, arg, fault, ret, raised) ==
  /\ lastOp' = op
  /\ lastArg' = arg
  /\ lastFault' = fault
  /\ lastRet' = ret
  /\ lastRaised' = raised

\* the script's first run on a fresh database file, before line 180
Init ==
  /\ schema = FALSE
  /\ books = {}
  /\ seq = 0
  /\ issued = {}
  /\ pre = [books |-> {}, issued |-> {}]
  /\ NoOp

\* one call of a store function that ended with outcome o
Call(op, arg, fault, o) ==
  /\ schema
  /\ books' = o.books
  /\ seq' = o.seq
  /\ issued' = issued \cup {b.id : b \in o.books \ books}
  /\ pre' = [books |-> books, issued |-> issued]
  /\ Record(op, arg, fault, o.ret, FALSE)
  /\ UNCHANGED schema

\* line 180, run at the start of every script run
EnsureSchema ==
  \E fault \in BOOLEAN :
    LET r == initialize_database(schema, fault)
    IN /\ schema' = r.schema
       /\ pre' = [books |-> books, issued |-> issued]
       /\ Record("init", <<>>, fault, PyNone, r.raised)
       /\ UNCHANGED <<books, seq, issued>>

Add(Titles, Authors, Years, Genres, Reads) ==
  \E title \in Titles, author \in Authors, year \in Years, genre \in Genres,
     read_status \in Reads, fault \in BOOLEAN :
    /\ seq < MaxId
    /\ \E o \in add_book_to_db(DB, title, author, year, genre, read_status, fault) :
         Call("add",
              [title |-> title, author |-> author, year |-> year, genre |-> genre,
               read |-> read_status],
              fault, o)

List ==
  \E fault \in BOOLEAN :
    \E o \in get_all_books(DB, fault) : Call("list", <<>>, fault, o)

Search(Queries) ==
  \E search_type \in {"Title", "Author"}, search_query \in Queries, fault \in BOOLEAN :
    \E o \in search_books(DB, search_type, search_query, fault) :
      Call("search", [type |-> search_type, query |-> search_query], fault, o)

Delete ==
  \E book_id \in 1..(MaxId + 1), fault \in BOOLEAN :
    \E o \in delete_book(DB, book_id, fault) :
      Call("delete", [id |-> book_id], fault, o)

Statistics(Faults) ==
  \E faults \in Faults :
    \E o \in get_statistics(DB, faults) : Call("stats", <<>>, faults, o)

\* the submit handler of add_book_form (lines 203-219): the notice shown
SubmitAddForm(Titles, Authors, Years, Genres, Reads) ==
  \E title \in Titles, author \in Authors, year \in Years, genre \in Genres,
     read_status \in Reads, fault \in BOOLEAN :
    LET arg == [title |-> title, author |-> author, year |-> year, genre |-> genre,
                read |-> read_status]
    IN IF title # <<>> /\ author # <<>> /\ genre # <<>>
         THEN /\ seq < MaxId
              /\ \E o \in add_book_to_db(DB, Strip(title), Strip(author), year,
                                         Strip(genre), read_status = "Yes", fault) :
                   Call("submit", arg, fault,
                        [books |-> o.books, seq |-> o.seq,
                         ret |-> IF Truthy(o.ret) THEN "success" ELSE "error"])
         ELSE Call("submit", arg, FALSE,
                   [books |-> books, seq |-> seq, ret |-> "warning"])

AllFaults == BOOLEAN \X BOOLEAN \X BOOLEAN \X BOOLEAN \X BOOLEAN

(* The store with every operation and every fault *)

CoreTitles == {<<"a">>, <<"b">>}
CoreAuthors == {<<"a">>}
CoreYears == {1995}
CoreGenres == {<<"a">>}
CoreQueries == {<<>>, <<"a">>}

AddCore == Add(CoreTitles, CoreAuthors, CoreYears, CoreGenres, BOOLEAN)
SearchCore == Search(CoreQueries)
StatisticsCore == Statistics(AllFaults)

Next == EnsureSchema \/ AddCore \/ List \/ SearchCore \/ Delete \/ StatisticsCore

Spec == Init /\ [][Next]_vars

(* Add, List and Delete *)

AddCrud == Add(CoreTitles, CoreAuthors, CoreYears, CoreGenres, BOOLEAN)

NextCrud == EnsureSchema \/ AddCrud \/ List \/ Delete

SpecCrud == Init /\ [][NextCrud]_vars

(* Add, Delete and Statistics *)

AddStats == Add({<<"a">>}, CoreAuthors, CoreYears, CoreGenres, BOOLEAN)
StatisticsStats == Statistics(AllFaults)

NextStats == EnsureSchema \/ AddStats \/ Delete \/ StatisticsStats

SpecStats == Init /\ [][NextStats]_vars

(* Search: ASCII titles and authors, queries with the characters % and _ *)

SearchTitles == {<<"A", "b">>, <<"b">>}
SearchAuthors == {<<"a">>, <<"b">>}
SearchQueries == {<<>>, <<"a">>, <<"B">>, <<"c">>, <<"_">>, <<"%">>}

AddSearch == Add(SearchTitles, SearchAuthors, {2001}, {<<"a">>}, {TRUE})
SearchSearch == Search(SearchQueries)

NextSearch == EnsureSchema \/ AddSearch \/ SearchSearch \/ Delete

SpecSearch == Init /\ [][NextSearch]_vars

(* Add, then List and Search by the title added: titles with letters outside ASCII *)

TripTitles == {<<"A", "b">>, <<"Eacute">>, <<"eacute">>}
TripAuthors == {<<"a">>}

AddTrip == Add(TripTitles, TripAuthors, {2001}, {<<"a">>}, BOOLEAN)
SearchTrip == Search(TripTitles)

NextTrip == EnsureSchema \/ AddTrip \/ List \/ SearchTrip \/ Delete

SpecTrip == Init /\ [][NextTrip]_vars

(* The add-book form: raw text inputs, years within the number input's range *)

FormTitles == {<<>>, <<" ">>, <<" ", "a", " ">>}
FormAuthors == {<<>>, <<"a">>}
FormGenres == {<<>>, <<"a">>}

SubmitForm == SubmitAddForm(FormTitles, FormAuthors, {2000}, FormGenres, {"Yes", "No"})

NextForm == EnsureSchema \/ SubmitForm \/ List \/ Delete

SpecForm == Init /\ [][NextForm]_vars

(* Decades: years on both sides of zero *)

DecadeYears == {-15, -5, 5, 1995}

AddDecade == Add({<<"a">>}, {<<"a">>}, DecadeYears, {<<"a">>}, {TRUE})
StatisticsDecade == Statistics(AllFaults)

NextDecade == EnsureSchema \/ AddDecade \/ Delete \/ StatisticsDecade

SpecDecade == Init /\ [][NextDecade]_vars

(* Statistics over pre-populated libraries with more than five genres or authors *)

Names == <<<<"a">>, <<"b">>, <<"c">>, <<"d">>, <<"e">>, <<"f">>>>

\* the table after adding copies[i] books of the i-th name, name by name
Library(col, copies) ==
  LET Before(i) == SumSeq([k \in 1..(i - 1) |-> copies[k]])
  IN {[id |-> Before(x[1]) + x[2],
       title |-> <<"a">>,
       author |-> IF col = "author" THEN Names[x[1]] ELSE <<"a">>,
       year |-> 2001,
       genre |-> IF col = "genre" THEN Names[x[1]] ELSE <<"a">>,
       read |-> 1] :
      x \in {y \in (1..Len(Names)) \X (1..(Len(Names) + MaxExtra)) : y[2] <= copies[y[1]]}}

\* no book of the i-th name, or i of them and up to MaxExtra more
InitTop ==
  \E col \in {"genre", "author"},
     copies \in {c \in [1..Len(Names) -> 0..(Len(Names) + MaxExtra)] :
                   \A i \in 1..Len(Names) : c[i] = 0 \/ (i <= c[i] /\ c[i] <= i + MaxExtra)} :
    /\ schema = TRUE
    /\ books = Library(col, copies)
    /\ seq = Cardinality(books)
    /\ issued = 1..seq
    /\ pre = [books |-> books, issued |-> issued]
    /\ NoOp

TopFaults == {f \in AllFaults : ~f[1] /\ ~f[2] /\ ~f[5]}

StatisticsTop == Statistics(TopFaults)

NextTop == StatisticsTop

SpecTop == InitTop /\ [][NextTop]_vars

-----------------------------------------------------------------------------
(* Claims *)

Min(a, b) == IF a < b THEN a ELSE b

Range(f) == {f[i] : i \in DOMAIN f}

IsSubstring(s, t) ==
  \E i \in 0..(Len(t) - Len(s)) : SubSeq(t, i + 1, i + Len(s)) = s

NoFaults == \A i \in 1..5 : ~lastFault[i]

\* the book dictionary d reports the values passed to the last Add under an
\* id that is positive and was never assigned before
IsTheBookAdded(d) ==
  /\ d.title = lastArg.title
  /\ d.author = lastArg.author
  /\ d.year = lastArg.year
  /\ d.genre = lastArg.genre
  /\ d.read = lastArg.read
  /\ d.id > 0
  /\ d.id \notin pre.issued

\* C1: after a fault-free Add, every List() and every Search by title with
\* the exact title added contain a record with the values passed to Add and a
\* positive id that no earlier book, deleted or not, ever had.
AddRoundTrip ==
  (lastOp = "add" /\ ~lastFault) =>
    /\ \A o \in get_all_books(DB, FALSE) : \E d \in Range(o.ret.val) : IsTheBookAdded(d)
    /\ \A o \in search_books(DB, "Title", lastArg.title, FALSE) :
         \E d \in Range(o.ret.val) : IsTheBookAdded(d)

\* C2: a fault-free Search(field, s) returns exactly the stored books whose
\* field contains s as a substring when letter case is ignored (every
\* character of s taken literally), ordered ascending by that field.
SearchIsSubstringMatch ==
  (lastOp = "search" /\ ~lastFault) =>
    LET Field(b) == IF lastArg.type = "Title" THEN b.title ELSE b.author
        res == lastRet.val
        hits == {b \in books : IsSubstring(PyLower(lastArg.query), PyLower(Field(b)))}
    IN /\ {d.id : d \in Range(res)} = {b.id : b \in hits}
       /\ Len(res) = Cardinality(hits)
       /\ \A i, j \in 1..Len(res) : i < j => StrLeq(Field(res[i]), Field(res[j]))

\* C3: a fault-free Delete(id) returns success; it removes the row with that
\* id and no other row, and leaves the table as it was when no row has that id.
DeleteRemovesOnlyThatRow ==
  (lastOp = "delete" /\ ~lastFault) =>
    /\ lastRet = PyBool(TRUE)
    /\ books \subseteq pre.books
    /\ pre.books \ books = {b \in pre.books : b.id = lastArg.id}
    /\ Cardinality(pre.books \ books) <= 1
    /\ (\A b \in pre.books : b.id # lastArg.id) => books = pre.books

\* C3 witness: a fault-free Delete of an id that was assigned and is already
\* deleted, on a table that holds other books.
DeleteOfDeletedId ==
  /\ lastOp = "delete" /\ ~lastFault
  /\ lastArg.id \in pre.issued
  /\ \A b \in pre.books : b.id # lastArg.id
  /\ books # {}
  /\ lastRet = PyBool(TRUE)

\* C4: a storage fault in a store operation never propagates as an uncaught
\* exception; the faulted operation leaves the table unchanged and ends with
\* its failure value (empty list, false, zero counts and empty maps).
FaultsAreContained ==
  /\ ~lastRaised
  /\ (lastOp \in {"init", "add", "list", "search", "delete"} /\ lastFault) =>
       /\ books = pre.books
       /\ lastOp = "list" => lastRet = PyList(<<>>)
       /\ lastOp = "search" => lastRet = PyList(<<>>)
       /\ lastOp = "add" => lastRet = PyBool(FALSE)
       /\ lastOp = "delete" => lastRet = PyBool(FALSE)
  /\ (lastOp = "stats" /\ \E i \in 1..5 : lastFault[i]) => books = pre.books
  /\ (lastOp = "stats" /\ \A i \in 1..5 : lastFault[i]) =>
       /\ lastRet.total_books = 0 /\ lastRet.read_books = 0
       /\ lastRet.read_percentage.num = 0
       /\ lastRet.genres = <<>> /\ lastRet.authors = <<>> /\ lastRet.decades = <<>>

\* C5: a fault-free Statistics() reports the number of rows, the number of
\* rows with read = true, and 100 * read_books / total_books as the
\* percentage, which is 0 for the empty table.
StatisticsCounts ==
  (lastOp = "stats" /\ NoFaults) =>
    LET r == lastRet
    IN /\ r.total_books = Cardinality(books)
       /\ r.read_books = Cardinality({b \in books : b.read = 1})
       /\ r.read_percentage.den > 0
       /\ r.total_books > 0 =>
            r.read_percentage.num * r.total_books
              = 100 * r.read_books * r.read_percentage.den
       /\ r.total_books = 0 => r.read_percentage.num = 0

\* C5 witness: fault-free statistics of a table with read and unread books.
StatisticsOfMixedTable ==
  /\ lastOp = "stats" /\ NoFaults
  /\ lastRet.total_books >= 2
  /\ 0 < lastRet.read_books /\ lastRet.read_books < lastRet.total_books

FloorDecade(year) == (year \div 10) * 10

\* C6: fault-free Statistics().decades has one entry per distinct
\* floor(year / 10) * 10 of the stored books, for every integer year, each
\* with the number of books of that decade, ascending by decade, and the
\* counts sum to the total book count.
DecadesAreFloorBuckets ==
  (lastOp = "stats" /\ NoFaults) =>
    LET d == lastRet.decades
        decades == {FloorDecade(b.year) : b \in books}
    IN /\ Len(d) = Cardinality(decades)
       /\ {x[1] : x \in Range(d)} = {<<k, "s">> : k \in decades}
       /\ \A x \in Range(d) :
            x[2] = Cardinality({b \in books : FloorDecade(b.year) = x[1][1]})
       /\ \A i, j \in 1..Len(d) : i < j => d[i][1][1] < d[j][1][1]
       /\ SumSeq([i \in 1..Len(d) |-> d[i][2]]) = lastRet.total_books

\* the items d are the top five of the values of column col over the table
IsTopFive(d, col) ==
  LET values == {GroupKey(col, b) : b \in books}
      Count(v) == Cardinality({b \in books : GroupKey(col, b) = v})
  IN /\ Len(d) = Min(5, Cardinality(values))
     /\ \A i, j \in 1..Len(d) : i < j => (d[i][1] # d[j][1] /\ d[i][2] >= d[j][2])
     /\ \A x \in Range(d) : x[1] \in values /\ x[2] = Count(x[1])
     /\ \A v \in values \ {x[1] : x \in Range(d)} : \A x \in Range(d) : Count(v) <= x[2]

\* C7: Statistics().genres, and likewise .authors, has min(5, number of
\* distinct values) entries, each with its exact count, in non-increasing
\* order of count, and nothing left out has a larger count than an entry.
TopFiveGenresAndAuthors ==
  lastOp = "stats" =>
    /\ ~lastFault[3] => IsTopFive(lastRet.genres, "genre")
    /\ ~lastFault[4] => IsTopFive(lastRet.authors, "author")

\* C7 witness: six genres with different counts, five of them reported.
SixGenresFiveReported ==
  /\ lastOp = "stats" /\ ~lastFault[3]
  /\ Cardinality({b.genre : b \in books}) = 6
  /\ Len(lastRet.genres) = 5
  /\ lastRet.genres[1][2] > lastRet.genres[5][2]

\* C8 as claimed: a fault-free Add returns the id assigned to the new row,
\* and a faulted Add returns a failure value.
AddReturnsAssignedId ==
  lastOp = "add" =>
    IF lastFault THEN ~Truthy(lastRet)
    ELSE /\ lastRet.kind = "int"
         /\ \E b \in books \ pre.books : b.id = lastRet.val

\* C8 as amended: a fault-free Add returns true and inserts one row, whose id
\* (the next of the sequence) every List() reports; a faulted Add returns
\* false and inserts nothing.
AddReturnsSuccessFlag ==
  lastOp = "add" =>
    IF lastFault THEN lastRet = PyBool(FALSE) /\ books = pre.books
    ELSE /\ lastRet = PyBool(TRUE)
         /\ \E b \in books \ pre.books :
              /\ books = pre.books \cup {b}
              /\ b.id = seq
              /\ \A o \in get_all_books(DB, FALSE) :
                   \E d \in Range(o.ret.val) : d.id = b.id /\ IsTheBookAdded(d)

\* C8 witness: a fault-free Add to a table that holds a book already.
AddToNonEmptyTable ==
  /\ lastOp = "add" /\ ~lastFault
  /\ pre.books # {}
  /\ Cardinality(books) = Cardinality(pre.books) + 1

\* C9: after any sequence of add-form submissions every stored book has a
\* non-empty title, author and genre; a submission with a text input that is
\* empty, also once stripped, gets the validation notice and inserts no row.
FormKeepsTextsNonEmpty ==
  /\ \A b \in books : b.title # <<>> /\ b.author # <<>> /\ b.genre # <<>>
  /\ (/\ lastOp = "submit"
      /\ <<>> \in {Strip(lastArg.title), Strip(lastArg.author), Strip(lastArg.genre)})
       => (lastRet = "warning" /\ books = pre.books)

\* C10: every Statistics() report is consistent with one state of the table,
\* also when only some of its five queries meet a fault.
StatisticsIsOneSnapshot ==
  lastOp = "stats" =>
    LET r == lastRet
    IN /\ r.read_books <= r.total_books
       /\ r.total_books = 0 => (r.genres = <<>> /\ r.authors = <<>> /\ r.decades = <<>>)
       /\ SumSeq([i \in 1..Len(r.decades) |-> r.decades[i][2]]) = r.total_books

====
